---- MODULE Spec2Model ----
(***************************************************************************)
(* Personal Expense Tracker: the command-line variant (expense_tracker.py, *)
(* lines 107-292) and the Streamlit variant (lines 1-103).                 *)
(*                                                                         *)
(* Representation.                                                         *)
(*  - A pandas Timestamp at midnight is the number of days since           *)
(*    1970-01-01 (an integer).  The text of a date cell, YYYY-MM-DD, is    *)
(*    the triple <<y, m, d>>.  Formatting and parsing are the civil        *)
(*    calendar conversions, not the identity.                              *)
(*  - A float is a tagged record: Num(n), NaNF, PosInf, NegInf.  Amounts   *)
(*    are whole units; binary rounding of fractions is not represented.    *)
(*    An amount cell holding NaNF is the empty cell (to_csv writes NaN as  *)
(*    the empty string, read_csv reads the empty string as NaN).           *)
(*  - A text cell is a string.  NaN in an object column is the reserved    *)
(*    value NaN, which no input set contains.                              *)
(*  - pandas is the 1.x line (DataFrame.append exists).                    *)
(***************************************************************************)
EXTENDS Integers, Sequences, FiniteSets, TLC

VARIABLES csv, pc, out, web, wout, proc

vars == <<csv, pc, out, web, wout, proc>>

(***************************************************************************)
(* Bounds of the model                                                     *)
(***************************************************************************)
MaxLedger == 2

MaxSummaryLedger == 2

MaxMonthLedger == 1

MaxWebLedger == 2

MaxConcLedger == 1

(***************************************************************************)
(* Floats                                                                  *)
(***************************************************************************)
Num(n) == [k |-> "num", v |-> n]

NaNF == [k |-> "nan", v |-> 0]

PosInf == [k |-> "inf", v |-> 1]

NegInf == [k |-> "inf", v |-> -1]

IsNum(x) == x.k = "num"

\* (row["amount"] / total) * 100 with numpy floats: a zero total yields nan
\* or an infinity (with a RuntimeWarning), never an exception and never 0.
\* A finite percentage is kept to whole per cent.
percentage(amount, total) ==
  IF total.v # 0
  THEN Num(IF total.v > 0 THEN (amount.v * 100) \div total.v
           ELSE (0 - amount.v * 100) \div (0 - total.v))
  ELSE IF amount.v = 0 THEN NaNF
  ELSE IF amount.v > 0 THEN PosInf ELSE NegInf

\* Series.sum(): NaN entries are skipped, the empty sum is 0.
RECURSIVE SumAmounts(_)
SumAmounts(rows) ==
  IF rows = <<>> THEN 0
  ELSE (IF IsNum(Head(rows).amount) THEN Head(rows).amount.v ELSE 0)
       + SumAmounts(Tail(rows))

(***************************************************************************)
(* Calendar                                                                *)
(***************************************************************************)
IsLeap(y) == (y % 4 = 0 /\ y % 100 # 0) \/ y % 400 = 0

DaysInMonth(y, m) ==
  IF m = 2 THEN (IF IsLeap(y) THEN 29 ELSE 28)
  ELSE IF m \in {4, 6, 9, 11} THEN 30 ELSE 31

\* Days since 1970-01-01 of the civil date y-m-d (proleptic Gregorian).
DaysFromCivil(y, m, d) ==
  LET yy  == IF m <= 2 THEN y - 1 ELSE y
      era == yy \div 400
      yoe == yy - era * 400
      mp  == IF m > 2 THEN m - 3 ELSE m + 9
      doy == (153 * mp + 2) \div 5 + d - 1
      doe == yoe * 365 + yoe \div 4 - yoe \div 100 + doy
  IN  era * 146097 + doe - 719468

\* The civil date <<y, m, d>> of a day number.
CivilFromDays(z) ==
  LET zz  == z + 719468
      era == zz \div 146097
      doe == zz - era * 146097
      yoe == (doe - doe \div 1460 + doe \div 36524 - doe \div 146096) \div 365
      doy == doe - (365 * yoe + yoe \div 4 - yoe \div 100)
      mp  == (5 * doy + 2) \div 153
      d   == doy - (153 * mp + 2) \div 5 + 1
      m   == IF mp < 10 THEN mp + 3 ELSE mp - 9
      y   == yoe + era * 400 + (IF m <= 2 THEN 1 ELSE 0)
  IN  <<y, m, d>>

ValidCivil(t) ==
  /\ Len(t) = 3
  /\ t[2] \in 1..12
  /\ t[3] >= 1
  /\ t[3] <= DaysInMonth(t[1], t[2])

\* pd.Timestamp(year=, month=, day=): ValueError for a month or day out of range.
Timestamp(y, m, d) ==
  IF ValidCivil(<<y, m, d>>) THEN [ok |-> TRUE, v |-> DaysFromCivil(y, m, d)]
  ELSE [ok |-> FALSE, v |-> 0]

\* datetime.today(): the calendar day the program runs on.
Today == <<2024, 1, 10>>

TodayTs == DaysFromCivil(Today[1], Today[2], Today[3])

\* datetime.strptime(date_in, "%Y-%m-%d").date(): ValueError unless the text
\* is a calendar date.
strptime(date_in) ==
  IF ValidCivil(date_in)
  THEN [ok |-> TRUE, v |-> DaysFromCivil(date_in[1], date_in[2], date_in[3])]
  ELSE [ok |-> FALSE, v |-> 0]

(***************************************************************************)
(* Text conversions                                                        *)
(***************************************************************************)
NaN == "<NaN>"

\* read_csv's default na_values (keep_default_na=True), pandas 1.x.
NaValues ==
  {"", "#N/A", "#N/A N/A", "#NA", "-1.#IND", "-1.#QNAN", "-NaN", "-nan",
   "1.#IND", "1.#QNAN", "<NA>", "N/A", "NA", "NULL", "NaN", "n/a", "nan", "null"}

\* read_csv of a text cell of an object column.
ReadText(cell) == IF cell \in NaValues THEN NaN ELSE cell

\* to_csv of a value of an object column (na_rep = "").
WriteText(v) == IF v = NaN THEN "" ELSE v

\* str.title() on the category texts that are entered.
title(s) ==
  CASE s = "food" -> "Food"
    [] s = "rent" -> "Rent"
    [] s = "travel" -> "Travel"
    [] s = "other" -> "Other"
    [] s = "n/a" -> "N/A"
    [] s = "na" -> "Na"
    [] OTHER -> s

\* The numbers float() and int() are asked to read.
NumberTexts == {-5, 0, 5, 10} \cup 1..13 \cup 2023..2024 \cup {2100}

\* The number each decimal text denotes.
NumberOfText ==
  [t \in {ToString(n) : n \in NumberTexts} |->
     CHOOSE n \in NumberTexts : ToString(n) = t]

\* float(amt_raw): ValueError for text that is no number; "nan" is a number.
float(s) ==
  IF s = "nan" THEN [ok |-> TRUE, v |-> NaNF]
  ELSE IF s \in DOMAIN NumberOfText
       THEN [ok |-> TRUE, v |-> Num(NumberOfText[s])]
       ELSE [ok |-> FALSE, v |-> NaNF]

\* int(mm), int(yy): ValueError for text that is no integer.
int(s) ==
  IF s \in DOMAIN NumberOfText
  THEN [ok |-> TRUE, v |-> NumberOfText[s]]
  ELSE [ok |-> FALSE, v |-> 0]

(***************************************************************************)
(* The backing file of the command-line variant                            *)
(***************************************************************************)
AbsentFile == [exists |-> FALSE, rows |-> <<>>]

\* ensure_csv(): create the file with the header row when it is absent.
ensure_csv(f) == IF f.exists THEN f ELSE [exists |-> TRUE, rows |-> <<>>]

\* pd.read_csv(CSV_FILE, parse_dates=["date"]) of one line.
ReadRow(line) ==
  [date        |-> DaysFromCivil(line.date[1], line.date[2], line.date[3]),
   category    |-> ReadText(line.category),
   amount      |-> line.amount,
   description |-> ReadText(line.description)]

\* load_df() without the fillna of the category column.
load_df_nofill(f) ==
  [i \in 1..Len(ensure_csv(f).rows) |->
     LET r == ReadRow(ensure_csv(f).rows[i])
     IN  [date        |-> r.date,
          category    |-> r.category,
          amount      |-> IF IsNum(r.amount) THEN r.amount ELSE Num(0),
          description |-> IF r.description = NaN THEN "" ELSE r.description]]

\* load_df(): read every line, then coerce amount, category and description.
load_df(f) ==
  [i \in 1..Len(ensure_csv(f).rows) |->
     LET r == ReadRow(ensure_csv(f).rows[i])
     IN  [date        |-> r.date,
          category    |-> IF r.category = NaN THEN "Other" ELSE r.category,
          amount      |-> IF IsNum(r.amount) THEN r.amount ELSE Num(0),
          description |-> IF r.description = NaN THEN "" ELSE r.description]]

\* df.to_csv(path, index=False, date_format=DATE_FMT) of one row.
WriteRow(r) ==
  [date        |-> CivilFromDays(r.date),
   category    |-> WriteText(r.category),
   amount      |-> IF r.amount.k = "nan" THEN NaNF ELSE r.amount,
   description |-> WriteText(r.description)]

\* save_df(df): the whole file is replaced by the frame.
save_df(df) == [exists |-> TRUE, rows |-> [i \in 1..Len(df) |-> WriteRow(df[i])]]

(***************************************************************************)
(* Sorting and grouping                                                    *)
(***************************************************************************)
\* Insert x after every element whose key is >= its key.
RECURSIVE InsertDesc(_, _, _)
InsertDesc(x, kx, s) ==
  IF s = <<>> THEN <<x>>
  ELSE IF Head(s)[2] >= kx THEN <<Head(s)>> \o InsertDesc(x, kx, Tail(s))
  ELSE <<x>> \o s

\* Pairs <<x, key>> in descending key order, equal keys in their given order.
RECURSIVE SortPairsDesc(_)
SortPairsDesc(s) ==
  IF s = <<>> THEN <<>>
  ELSE LET n == Len(s)
       IN  InsertDesc(s[n], s[n][2], SortPairsDesc(SubSeq(s, 1, n - 1)))

\* Pairs <<x, key>> in ascending key order.
RECURSIVE SortPairsAsc(_)
SortPairsAsc(s) ==
  LET d == SortPairsDesc(s)
  IN  [i \in 1..Len(d) |-> d[Len(d) + 1 - i]]

\* by_cat sorted the wrong way round (ascending=True).
sort_values_amount_asc(g) ==
  LET p == SortPairsAsc([i \in 1..Len(g) |-> <<g[i], g[i].amount.v>>])
  IN  [i \in 1..Len(p) |-> p[i][1]]

\* .sort_values("amount", ascending=False): the frames sorted here are short,
\* and on short inputs the sort keeps equal keys in their given order.
sort_values_amount(g) ==
  LET p == SortPairsDesc([i \in 1..Len(g) |-> <<g[i], g[i].amount.v>>])
  IN  [i \in 1..Len(p) |-> p[i][1]]

\* .sort_values("date", ascending=False)
sort_values_date(df) ==
  LET p == SortPairsDesc([i \in 1..Len(df) |-> <<df[i], df[i].date>>])
  IN  [i \in 1..Len(p) |-> p[i][1]]

\* The category texts of the model, in the order groupby sorts its keys.
CatSorted == <<"Bills", "Entertainment", "Food", "N/A", "Na", "Other", "Rent", "Travel">>

\* groupby("category", as_index=False)["amount"].sum(): one row per key that
\* occurs, keys sorted; rows whose key is NaN belong to no group.
groupby_category_sum(sub) ==
  LET keys == SelectSeq(CatSorted, LAMBDA c : \E i \in 1..Len(sub) : sub[i].category = c)
  IN  [i \in 1..Len(keys) |->
         [category |-> keys[i],
          amount   |-> Num(SumAmounts(SelectSeq(sub, LAMBDA r : r.category = keys[i])))]]

(***************************************************************************)
(* Period selection and summary                                            *)
(***************************************************************************)
\* days is not None: [today - (days-1), today].
LastNDays(days) ==
  [ok |-> TRUE, start |-> TodayTs - (days - 1), end |-> TodayTs]

\* The end of the month computed without the December case.
MonthEnd_NoDecember(year, month) ==
  LET nxt == Timestamp(year, month + 1, 1)
  IN  [ok |-> nxt.ok, v |-> nxt.v - 1]

\* The end of month: the first of the next month minus one day.
MonthEnd(year, month) ==
  LET nxt == IF month = 12 THEN Timestamp(year + 1, 1, 1)
             ELSE Timestamp(year, month + 1, 1)
  IN  [ok |-> nxt.ok, v |-> nxt.v - 1]

\* days is None: the month of the year, first to last day.
CalendarMonth(month, year) ==
  LET first == Timestamp(year, month, 1)
      last  == MonthEnd(year, month)
  IN  [ok |-> first.ok /\ last.ok, start |-> first.v, end |-> last.v]

NoOut ==
  [op |-> "none", msg |-> "", fault |-> FALSE, input |-> <<>>, prev |-> <<>>,
   new |-> <<>>, start |-> 0, end |-> 0, sub |-> <<>>, total |-> Num(0),
   count |-> 0, by_cat |-> <<>>, recent |-> <<>>]

\* summary_period(...) once the period is a range; a ValueError raised by
\* pd.Timestamp is passed on as fault.
summary_period(f, range) ==
  LET df  == load_df(f)
      sub == SelectSeq(df, LAMBDA r : r.date >= range.start /\ r.date <= range.end)
      total  == Num(SumAmounts(sub))
      by_cat == sort_values_amount(groupby_category_sum(sub))
      rec == sort_values_date(sub)
  IN  IF df = <<>>
      THEN [NoOut EXCEPT !.op = "summary", !.msg = "No expenses to summarize.",
                         !.prev = df]
      ELSE IF ~range.ok
      THEN [NoOut EXCEPT !.op = "summary", !.msg = "ValueError", !.fault = TRUE,
                         !.prev = df]
      ELSE IF sub = <<>>
      THEN [NoOut EXCEPT !.op = "summary", !.msg = "No expenses in period.",
                         !.prev = df, !.start = range.start, !.end = range.end]
      ELSE [NoOut EXCEPT !.op = "summary", !.msg = "Summary",
                         !.prev = df, !.start = range.start, !.end = range.end,
                         !.sub = sub, !.total = total, !.count = Len(sub),
                         !.by_cat = [i \in 1..Len(by_cat) |->
                                       [category |-> by_cat[i].category,
                                        amount   |-> by_cat[i].amount,
                                        pct      |-> percentage(by_cat[i].amount, total)]],
                         !.recent = SubSeq(rec, 1, IF Len(rec) < 5 THEN Len(rec) ELSE 5)]

(***************************************************************************)
(* The menu loop of the command-line variant                               *)
(***************************************************************************)
\* Paths the process cannot write to.
UnwritablePaths == {"/no/such/dir/out.csv"}

CSV_FILE == "expenses.csv"

\* interactive_menu() up to the first prompt: ensure_csv().
Start ==
  /\ pc = "start"
  /\ csv' = ensure_csv(csv)
  /\ pc' = "menu"
  /\ UNCHANGED <<out, web, wout, proc>>

\* add_expense() that writes the new row alone.
add_expense_new_row_only(date_in, cat_in, amt_raw, desc_in) ==
  /\ pc = "menu"
  /\ LET date     == IF date_in = <<>> THEN [ok |-> TRUE, v |-> TodayTs]
                     ELSE strptime(date_in)
         category == IF cat_in = "" THEN "Other" ELSE cat_in
         amount   == float(amt_raw)
         df       == load_df(csv)
         new      == [date |-> date.v, category |-> title(category),
                      amount |-> amount.v, description |-> desc_in]
         said(m)  == [NoOut EXCEPT !.op = "add", !.msg = m, !.prev = df,
                                   !.input = <<date_in, cat_in, amt_raw, desc_in>>]
     IN  IF ~date.ok
         THEN csv' = csv /\ out' = said("Invalid date format. Use YYYY-MM-DD.")
         ELSE IF ~amount.ok
         THEN csv' = csv /\ out' = said("Invalid amount.")
         ELSE /\ csv' = save_df(<<new>>)
              /\ out' = [said("Expense added.") EXCEPT !.new = new]
  /\ UNCHANGED <<pc, web, wout, proc>>

\* add_expense(): menu option 1.
add_expense(date_in, cat_in, amt_raw, desc_in) ==
  /\ pc = "menu"
  /\ LET date     == IF date_in = <<>> THEN [ok |-> TRUE, v |-> TodayTs]
                     ELSE strptime(date_in)
         category == IF cat_in = "" THEN "Other" ELSE cat_in
         amount   == float(amt_raw)
         df       == load_df(csv)
         new      == [date |-> date.v, category |-> title(category),
                      amount |-> amount.v, description |-> desc_in]
         said(m)  == [NoOut EXCEPT !.op = "add", !.msg = m, !.prev = df,
                                   !.input = <<date_in, cat_in, amt_raw, desc_in>>]
     IN  IF ~date.ok
         THEN csv' = csv /\ out' = said("Invalid date format. Use YYYY-MM-DD.")
         ELSE IF ~amount.ok
         THEN csv' = csv /\ out' = said("Invalid amount.")
         ELSE /\ csv' = save_df(Append(df, new))
              /\ out' = [said("Expense added.") EXCEPT !.new = new]
  /\ UNCHANGED <<pc, web, wout, proc>>

\* view_all(): menu option 2.
view_all ==
  /\ pc = "menu"
  /\ LET df == load_df(csv)
     IN  out' = IF df = <<>>
                THEN [NoOut EXCEPT !.op = "view", !.msg = "No expenses recorded yet."]
                ELSE [NoOut EXCEPT !.op = "view", !.msg = "All expenses",
                                   !.prev = df, !.sub = sort_values_date(df)]
  /\ csv' = ensure_csv(csv)
  /\ UNCHANGED <<pc, web, wout, proc>>

\* prompt_summary(): menu option 3.  Choice 3 runs inside try/except, which
\* turns any exception into "Invalid inputs."; choices 1 and 2 do not.
prompt_summary(choice, mm, yy) ==
  /\ pc = "menu"
  /\ LET m == int(mm)
         y == int(yy)
         r == IF choice = "1" THEN summary_period(csv, LastNDays(7))
              ELSE IF choice = "2"
              THEN summary_period(csv, CalendarMonth(Today[2], Today[1]))
              ELSE IF choice = "3"
              THEN IF ~(m.ok /\ y.ok)
                   THEN [NoOut EXCEPT !.op = "summary", !.msg = "Invalid inputs."]
                   ELSE IF ~(1 <= m.v /\ m.v <= 12)
                   THEN [NoOut EXCEPT !.op = "summary", !.msg = "Invalid month."]
                   ELSE LET s == summary_period(csv, CalendarMonth(m.v, y.v))
                        IN  IF s.fault
                            THEN [NoOut EXCEPT !.op = "summary", !.msg = "Invalid inputs."]
                            ELSE s
              ELSE [NoOut EXCEPT !.op = "summary", !.msg = "Invalid choice."]
     IN  /\ out' = [r EXCEPT !.input = IF choice = "3" THEN <<choice, mm, yy>>
                                       ELSE <<choice>>]
         /\ pc' = IF r.fault THEN "exited" ELSE "menu"
         /\ csv' = IF r.msg \in {"Invalid inputs.", "Invalid month.", "Invalid choice."}
                       /\ ~(m.ok /\ y.ok /\ 1 <= m.v /\ m.v <= 12 /\ choice = "3")
                   THEN csv ELSE ensure_csv(csv)
  /\ UNCHANGED <<web, wout, proc>>

\* export_csv(): menu option 4.  An OSError raised by to_csv is not caught
\* in the loop: it leaves interactive_menu() and is printed by __main__.
export_csv(path) ==
  /\ pc = "menu"
  /\ LET df == load_df(csv)
     IN  IF path = ""
         THEN /\ out' = [NoOut EXCEPT !.op = "export", !.msg = "No filename given.",
                                      !.input = <<path>>]
              /\ UNCHANGED <<csv, pc>>
         ELSE IF path \in UnwritablePaths
         THEN /\ out' = [NoOut EXCEPT !.op = "export", !.msg = "Error:",
                                      !.fault = TRUE, !.input = <<path>>, !.prev = df]
              /\ pc' = "exited"
              /\ csv' = ensure_csv(csv)
         ELSE /\ out' = [NoOut EXCEPT !.op = "export", !.msg = "Exported",
                                      !.input = <<path>>, !.prev = df,
                                      !.sub = save_df(df).rows]
              /\ csv' = IF path = CSV_FILE THEN save_df(df) ELSE ensure_csv(csv)
              /\ pc' = pc
  /\ UNCHANGED <<web, wout, proc>>

\* Menu option 5: the loop ends.
Exit ==
  /\ pc = "menu"
  /\ pc' = "exited"
  /\ out' = [NoOut EXCEPT !.op = "exit", !.msg = "Goodbye!"]
  /\ UNCHANGED <<csv, web, wout, proc>>

\* Any other text at the menu prompt.
InvalidOption ==
  /\ pc = "menu"
  /\ out' = [NoOut EXCEPT !.op = "menu", !.msg = "Invalid option, try again."]
  /\ UNCHANGED <<csv, pc, web, wout, proc>>

\* One turn of the loop in interactive_menu(), the inputs drawn from the sets
\* given (a prompt is <<choice, month text, year text>>); a ledger of maxLen
\* records takes no more.
MenuStep(maxLen, Dates, Cats, Amts, Descs, Prompts, Paths) ==
  \/ Start
  \/ \E d \in Dates, c \in Cats, a \in Amts, s \in Descs :
        Len(csv.rows) < maxLen /\ add_expense(d, c, a, s)
  \/ view_all
  \/ \E q \in Prompts : prompt_summary(q[1], q[2], q[3])
  \/ \E p \in Paths : export_csv(p)
  \/ Exit
  \/ InvalidOption

IdleWeb == [exists |-> FALSE, rows |-> <<>>]

IdleProc == [p \in 1..2 |-> [pc |-> "idle", df |-> <<>>, new |-> <<>>]]

\* The process starts with no backing file.
Init ==
  /\ csv = AbsentFile
  /\ pc = "start"
  /\ out = NoOut
  /\ web = IdleWeb
  /\ wout = NoOut
  /\ proc = IdleProc

(***************************************************************************)
(* Spec: the ledger operations (add, view, export, exit)                   *)
(***************************************************************************)
LedgerDates == {<<>>, <<2023, 2, 29>>}

LedgerCats == {"food", ""}

LedgerAmts == {"10", "-5", "abc"}

LedgerDescs == {"", "lunch", "NA"}

LedgerPaths == {"", "my_expenses.csv", "expenses.csv", "/no/such/dir/out.csv"}

Next ==
  MenuStep(MaxLedger, LedgerDates, LedgerCats, LedgerAmts, LedgerDescs,
           {<<"1", "", "">>, <<"9", "", "">>}, LedgerPaths)

Spec == Init /\ [][Next]_vars

(***************************************************************************)
(* SpecSummary: summaries over ledgers of several categories               *)
(***************************************************************************)
SummaryDates == {<<>>, <<2024, 1, 3>>}

SummaryCats == {"rent", "food", "n/a"}

SummaryAmts == {"0", "5"}

SummaryPrompts ==
  {<<"1", "", "">>, <<"2", "", "">>, <<"4", "", "">>}
    \cup {<<"3", mm, "2023">> : mm \in {"1", "13", "x"}}

NextSummary ==
  MenuStep(MaxSummaryLedger, SummaryDates, SummaryCats, SummaryAmts, {""},
           SummaryPrompts, {"my_expenses.csv"})

SpecSummary == Init /\ [][NextSummary]_vars

(***************************************************************************)
(* SpecMonth: calendar-month summaries over records at the month borders   *)
(***************************************************************************)
\* The first and the last day of every month of 2024, the days around the
\* end of February and of December 2023, and the days around the end of
\* February 2100 (no leap year).
MonthDates ==
  {<<2024, m, 1>> : m \in 1..12}
    \cup {<<2024, m, DaysInMonth(2024, m)>> : m \in 1..12}
    \cup {<<2023, 2, 28>>, <<2023, 3, 1>>, <<2023, 12, 31>>, <<2025, 1, 1>>}
    \cup {<<2100, 2, 28>>, <<2100, 3, 1>>}

\* Every month of 2024 (a leap year), February and December of 2023, and
\* February of 2100.
MonthPrompts ==
  {<<"3", ToString(m), "2024">> : m \in 1..12}
    \cup {<<"3", "2", "2023">>, <<"3", "12", "2023">>, <<"3", "2", "2100">>}

NextMonth ==
  MenuStep(MaxMonthLedger, MonthDates, {"food"}, {"5"}, {""},
           MonthPrompts, {"my_expenses.csv"})

SpecMonth == Init /\ [][NextMonth]_vars

(***************************************************************************)
(* The Streamlit variant: every interaction reruns the script              *)
(***************************************************************************)
\* Time of day is counted in TicksPerDay steps; tick 0 is midnight.
TicksPerDay == 2

\* ensure_csv() of the Streamlit variant: read the file, create it when
\* read_csv raises FileNotFoundError.
web_ensure_csv(f) == IF f.exists THEN f ELSE [exists |-> TRUE, rows |-> <<>>]

\* load_data(): the Date column parsed, nothing else coerced.  (The columns
\* are Date, Category, Amount, Description; the rows here use the field names
\* of the command-line variant.)
load_data(f) ==
  [i \in 1..Len(web_ensure_csv(f).rows) |-> ReadRow(web_ensure_csv(f).rows[i])]

\* save_data(df)
save_data(df) == [exists |-> TRUE, rows |-> [i \in 1..Len(df) |-> WriteRow(df[i])]]

\* "Add Expense" page with the button pressed.  date_input yields a calendar
\* date, the category comes from the fixed list, number_input yields a float
\* >= 0.
web_add(date, category, amount, description) ==
  /\ LET new_row == [date |-> DaysFromCivil(date[1], date[2], date[3]),
                     category |-> category, amount |-> Num(amount),
                     description |-> description]
         df == load_data(web)
     IN  /\ web' = save_data(Append(df, new_row))
         /\ wout' = [NoOut EXCEPT !.op = "add", !.msg = "Expense added successfully!",
                                  !.prev = df, !.new = new_row]
  /\ UNCHANGED <<csv, pc, out, proc>>

\* "View All" page.
web_view_all ==
  /\ LET df == load_data(web)
     IN  wout' = IF df = <<>>
                 THEN [NoOut EXCEPT !.op = "view", !.msg = "No expenses recorded yet."]
                 ELSE [NoOut EXCEPT !.op = "view", !.msg = "All expenses", !.prev = df,
                                    !.sub = sort_values_date(df),
                                    !.total = Num(SumAmounts(df))]
  /\ web' = web_ensure_csv(web)
  /\ UNCHANGED <<csv, pc, out, proc>>

\* The rows kept for a period: Date >= datetime.today() - Timedelta(days=n),
\* with datetime.today() at tick tod of today; "All Time" keeps every row.
web_filtered(df, period, tod) ==
  LET now == TodayTs * TicksPerDay + tod
      n   == IF period = "Weekly (7 days)" THEN 7 ELSE 30
  IN  IF period = "All Time" THEN df
      ELSE SelectSeq(df, LAMBDA r : r.date * TicksPerDay >= now - n * TicksPerDay)

\* "Summary" page with a period selected.
web_summary(period, tod) ==
  /\ LET df == load_data(web)
         filtered == web_filtered(df, period, tod)
     IN  wout' = IF df = <<>>
                 THEN [NoOut EXCEPT !.op = "summary", !.msg = "No data to summarize."]
                 ELSE IF filtered = <<>>
                 THEN [NoOut EXCEPT !.op = "summary", !.prev = df,
                                    !.msg = "No expenses found for this period.",
                                    !.input = <<period, tod>>]
                 ELSE [NoOut EXCEPT !.op = "summary", !.msg = "Summary", !.prev = df,
                                    !.input = <<period, tod>>,
                                    !.sub = filtered,
                                    !.total = Num(SumAmounts(filtered)),
                                    !.count = Len(filtered),
                                    !.by_cat = sort_values_amount(groupby_category_sum(filtered)),
                                    !.recent = sort_values_date(filtered)]
  /\ web' = web_ensure_csv(web)
  /\ UNCHANGED <<csv, pc, out, proc>>

WebDates == {<<2024, 1, 3>>, <<2024, 1, 4>>, <<2024, 1, 10>>, <<2024, 1, 11>>}

WebCats == {"Food", "Rent"}

WebAmts == {0, 10}

WebPeriods == {"Weekly (7 days)", "Monthly (30 days)", "All Time"}

NextWeb ==
  \/ \E d \in WebDates, c \in WebCats, a \in WebAmts :
        Len(web.rows) < MaxWebLedger /\ web_add(d, c, a, "")
  \/ web_view_all
  \/ \E p \in WebPeriods, tod \in 0..(TicksPerDay - 1) : web_summary(p, tod)

SpecWeb == Init /\ [][NextWeb]_vars

(***************************************************************************)
(* SpecConc: two processes run add_expense() on the same backing file      *)
(***************************************************************************)
\* Lines 143-167 of add_expense() in process p: the inputs are read and
\* checked, the whole file is loaded, the new row is built.
conc_load(p, date_in, cat_in, amt_raw, desc_in) ==
  /\ proc[p].pc = "idle"
  /\ LET date     == IF date_in = <<>> THEN [ok |-> TRUE, v |-> TodayTs]
                     ELSE strptime(date_in)
         category == IF cat_in = "" THEN "Other" ELSE cat_in
         amount   == float(amt_raw)
         new      == [date |-> date.v, category |-> title(category),
                      amount |-> amount.v, description |-> desc_in]
     IN  IF date.ok /\ amount.ok
         THEN /\ proc' = [proc EXCEPT ![p] = [pc |-> "loaded", df |-> load_df(csv),
                                              new |-> <<new>>]]
              /\ csv' = ensure_csv(csv)
         ELSE /\ proc' = [proc EXCEPT ![p] = [pc |-> "aborted", df |-> <<>>,
                                              new |-> <<>>]]
              /\ csv' = csv
  /\ UNCHANGED <<pc, out, web, wout>>

\* A save that appends to the file as it is at the time of the write.
conc_save_atomic(p) ==
  /\ proc[p].pc = "loaded"
  /\ csv' = save_df(load_df(csv) \o proc[p].new)
  /\ proc' = [proc EXCEPT ![p].pc = "done"]
  /\ UNCHANGED <<pc, out, web, wout>>

\* Lines 168-169 in process p: the frame loaded earlier plus the new row
\* replaces the file.
conc_save(p) ==
  /\ proc[p].pc = "loaded"
  /\ csv' = save_df(proc[p].df \o proc[p].new)
  /\ proc' = [proc EXCEPT ![p].pc = "done"]
  /\ UNCHANGED <<pc, out, web, wout>>

ConcDates == {<<>>}

ConcCats == {"food", "rent"}

ConcAmts == {"5", "10"}

\* Before either process starts its add, the ledger grows by ordinary adds.
NextConc ==
  \/ Start
  \/ \E c \in ConcCats, a \in ConcAmts :
        /\ proc = IdleProc
        /\ Len(csv.rows) < MaxConcLedger
        /\ add_expense(<<>>, c, a, "")
  \/ \E p \in 1..2, c \in ConcCats, a \in ConcAmts :
        pc = "menu" /\ conc_load(p, <<>>, c, a, "")
  \/ \E p \in 1..2 : conc_save(p)

SpecConc == Init /\ [][NextConc]_vars

(***************************************************************************)
(* Properties                                                              *)
(***************************************************************************)
IsPrefix(a, b) == Len(a) <= Len(b) /\ \A i \in 1..Len(a) : b[i] = a[i]

Added == out.op = "add" /\ out.msg = "Expense added."

Summarised == out.op = "summary" /\ out.msg = "Summary"

\* A record of the data model: a non-negative amount, a category that is not
\* blank, any description.
ValidRecord(r) == IsNum(r.amount) /\ r.amount.v >= 0 /\ r.category # ""

\* C1: after a successful add of a valid record r the persisted ledger is one
\* record longer than before and the next full load returns r, field for
\* field, as its last element.
C1_AppendRoundTrip ==
  (Added /\ ValidRecord(out.new)) =>
     LET now == load_df(csv)
     IN  /\ Len(now) = Len(out.prev) + 1
         /\ now[Len(now)] = out.new

ValidNonNegative(amt_raw) ==
  float(amt_raw).ok /\ IsNum(float(amt_raw).v) /\ float(amt_raw).v.v >= 0

\* C3: an add whose amount text is not a valid non-negative number (text that
\* is no number, or a negative number) is reported as "Invalid amount." and
\* leaves the persisted ledger as it was.
C3_InvalidAmountRejected ==
  (/\ out.op = "add"
   /\ out.msg # "Invalid date format. Use YYYY-MM-DD."
   /\ ~ValidNonNegative(out.input[3]))
  => (out.msg = "Invalid amount." /\ load_df(csv) = out.prev)

\* The records of df dated in [today - (n-1), today].
InLastNDays(df, n) ==
  SelectSeq(df, LAMBDA r : r.date >= TodayTs - (n - 1) /\ r.date <= TodayTs)

\* C4: the last-n-days summary covers exactly the records dated in
\* [today - (n-1), today]; stated for the Streamlit variant's weekly (n = 7)
\* and monthly (n = 30) periods.
C4_WebLastNDays ==
  (wout.op = "summary" /\ wout.prev # <<>> /\ wout.input # <<>>
     /\ wout.input[1] # "All Time")
  => wout.sub = InLastNDays(wout.prev,
                            IF wout.input[1] = "Weekly (7 days)" THEN 7 ELSE 30)

\* The same for the command-line variant's weekly summary; it holds.
C4_CliLastNDays ==
  (out.op = "summary" /\ out.input = <<"1">> /\ out.prev # <<>>)
  => (/\ out.sub = InLastNDays(out.prev, 7)
      /\ out.start = TodayTs - 6
      /\ out.end = TodayTs)

\* C5: a calendar-month summary of month m in 1..12 of year y over a ledger
\* that is not empty raises nothing, ranges from y-m-01 to the last day of
\* that month (28, 29, 30 or 31 by month and leap year; 31 December for
\* m = 12) and covers exactly the records dated in that month.
C5_CalendarMonthRange ==
  (/\ out.op = "summary" /\ Len(out.input) = 3
   /\ int(out.input[2]).ok /\ int(out.input[3]).ok
   /\ int(out.input[2]).v \in 1..12
   /\ load_df(csv) # <<>>)
  => LET m == int(out.input[2]).v
         y == int(out.input[3]).v
     IN  /\ out.msg \in {"Summary", "No expenses in period."}
         /\ CivilFromDays(out.start) = <<y, m, 1>>
         /\ CivilFromDays(out.end) = <<y, m, DaysInMonth(y, m)>>
         /\ out.sub = SelectSeq(load_df(csv),
                                LAMBDA r : /\ CivilFromDays(r.date)[1] = y
                                           /\ CivilFromDays(r.date)[2] = m)

\* C5 witness: the summary of February 2024 covers a record of 29 February.
C5_Witness ==
  /\ Summarised /\ out.input = <<"3", "2", "2024">>
  /\ CivilFromDays(out.end) = <<2024, 2, 29>>
  /\ \E i \in 1..Len(out.sub) : CivilFromDays(out.sub[i].date) = <<2024, 2, 29>>

RECURSIVE SumByCat(_)
SumByCat(g) == IF g = <<>> THEN 0 ELSE Head(g).amount.v + SumByCat(Tail(g))

\* C6: the total of a summary equals the sum of its per-category sums, and
\* every record of the filtered ledger belongs to exactly one category row.
C6_TotalIsSumOfCategories ==
  Summarised =>
    /\ out.total.v = SumByCat(out.by_cat)
    /\ out.total.v = SumAmounts(out.sub)
    /\ \A i \in 1..Len(out.sub) :
         Cardinality({j \in 1..Len(out.by_cat) :
                        out.by_cat[j].category = out.sub[i].category}) = 1

\* C6 witness: a summary of two categories, one of them the "Other" that a
\* load gives a record whose category cell reads as missing, with an amount
\* that counts.
C6_Witness ==
  /\ Summarised /\ Len(out.by_cat) = 2
  /\ \E j \in 1..2 : out.by_cat[j].category = "Other" /\ out.by_cat[j].amount.v > 0
  /\ \E i \in 1..Len(csv.rows) : csv.rows[i].category = "N/A"

\* C7: in a summary whose total is 0 every category percentage is 0.
C7_ZeroTotalPercentages ==
  (Summarised /\ out.total.v = 0)
  => \A i \in 1..Len(out.by_cat) : out.by_cat[i].pct = Num(0)

\* The place of the first record of category c in the ledger df.
FirstAppearance(df, c) ==
  CHOOSE i \in 1..Len(df) :
    df[i].category = c /\ \A j \in 1..(i - 1) : df[j].category # c

\* C8 as stated: the breakdown is in descending order of summed amount and
\* categories with equal sums are in the order of their first appearance in
\* the ledger.
C8_DescendingStableByFirstAppearance ==
  Summarised =>
    \A i, j \in 1..Len(out.by_cat) :
      i < j =>
        /\ out.by_cat[i].amount.v >= out.by_cat[j].amount.v
        /\ out.by_cat[i].amount.v = out.by_cat[j].amount.v
             => FirstAppearance(out.sub, out.by_cat[i].category)
                  < FirstAppearance(out.sub, out.by_cat[j].category)

\* C8 as amended: the breakdown has one row per category of the filtered
\* ledger, in descending order of summed amount.
C8_DescendingBySum ==
  Summarised =>
    /\ \A i, j \in 1..Len(out.by_cat) :
         i < j => /\ out.by_cat[i].amount.v >= out.by_cat[j].amount.v
                  /\ out.by_cat[i].category # out.by_cat[j].category
    /\ {out.by_cat[i].category : i \in 1..Len(out.by_cat)}
         = {out.sub[i].category : i \in 1..Len(out.sub)}

\* C8 witness: Rent with the larger sum is listed before Food, against the
\* order of the keys.
C8_Witness ==
  /\ Summarised /\ Len(out.by_cat) = 2
  /\ out.by_cat[1].category = "Rent" /\ out.by_cat[2].category = "Food"
  /\ out.by_cat[1].amount.v > out.by_cat[2].amount.v

\* C9: after a fault raised inside a menu operation the program is at the
\* menu prompt again.
C9_LoopSurvivesFault == out.fault => pc = "menu"

BothDone == proc[1].pc = "done" /\ proc[2].pc = "done"

\* C10: when both processes have finished their add, the file holds what the
\* last writer wrote, the frame it had loaded plus its own record; and when
\* both had loaded a ledger of the same length (their loads came before
\* either write) the ledger has grown by one record, not two.
C10_LastWriterWins ==
  BothDone =>
    /\ \E p \in 1..2 : load_df(csv) = proc[p].df \o proc[p].new
    /\ Len(proc[1].df) = Len(proc[2].df)
         => Len(load_df(csv)) = Len(proc[1].df) + 1

\* C10 witness: both adds are done, the two records differ, and the ledger
\* holds only one of them after the records it held before.
C10_LostUpdate ==
  /\ BothDone
  /\ proc[1].new # proc[2].new
  /\ proc[1].df = proc[2].df
  /\ Len(proc[1].df) = 1
  /\ Len(load_df(csv)) = 2
  /\ load_df(csv)[2] = proc[2].new[1]

====
